---------------------------- MODULE Spec2Model ----------------------------
(***************************************************************************)
(* Hatari printer.c: the printer byte sink.  Bytes sent by the emulated ST *)
(* arrive through Printer_TransferByteTo, are filtered, tab-expanded and   *)
(* buffered in PrinterBuffer, and are written to the print file when the   *)
(* buffer fills, when Printer_CheckIdleStatus finds bytes waiting, or when *)
(* the connection is closed.                                               *)
(*                                                                         *)
(* The C functions are modelled as operators on a record holding the       *)
(* module's static variables and the file system's view of the print file; *)
(* the actions apply them to the state variables of the same names.        *)
(***************************************************************************)
EXTENDS Integers, Sequences, FiniteSets

(***************************************************************************)
(* Program constants.                                                      *)
(***************************************************************************)
PRINTER_TAB_SETTING == 8

PRINTER_IDLE_CLOSE == 200

PRINTER_BUFFER_SIZE == 2048

\* the largest int: int is 32 bits wide on every target of the emulator
INT_MAX == 2147483647

INT_MIN == -INT_MAX - 1

\* unsigned char
ByteValues == 0..255

CR == 13

LF == 10

TAB == 9

SPACE == 32

(***************************************************************************)
(* Bounds of the model.                                                    *)
(***************************************************************************)
\* calls of Printer_TransferByteTo in a run of Spec
MaxBytes == 3

\* calls of Printer_CheckIdleStatus in a run of Spec
MaxTicks == 2

\* calls of Printer_CloseAllConnections in a run
MaxCloses == 2

\* changes of the bEnablePrinting configuration flag in a run
MaxConfigures == 1

\* a short fwrite writes 0..MaxShortWrite bytes
MaxShortWrite == 1

\* calls of Printer_TransferByteTo in a run of SpecIdle
MaxIdleBytes == 1

\* calls of Printer_TransferByteTo in a run of SpecBytes
MaxWideBytes == 2

\* SpecFill: transfers made beyond the PRINTER_BUFFER_SIZE that fill the buffer
MaxOverfill == 3

\* SpecFill: bytes other than the filling character, and idle checks, come
\* only once the buffer is within FillWindow bytes of full
FillWindow == 10

\* SpecFill: bytes other than the filling character in a run
MaxSpecials == 1

\* SpecFill: calls of Printer_CheckIdleStatus in a run
MaxFillTicks == 1

\* SpecLongLine: the buffer starts 1..LongLineWindow bytes short of the
\* fill at which a tab is preceded by a flush
LongLineWindow == 3

\* SpecLongLine: the line starts 0..LongLineSlack characters short of INT_MAX
LongLineSlack == 1

\* SpecLongLine: calls of Printer_TransferByteTo in a run
MaxLongBytes == 3

\* SpecLive: calls of Printer_TransferByteTo in a run
MaxLiveBytes == 2

VARIABLES
    PrinterBuffer,              \* PrinterBuffer[0 .. nPrinterBufferChars-1], as a sequence
    nPrinterBufferChars,        \* size_t
    nPrinterBufferCharsOnLine,  \* int
    bConnectedPrinter,
    bPrinterFile,
    nIdleCount,                 \* int
    PrinterFileHandle,          \* "NULL", "open", or "closed" (dangling after fclose)
    bEnablePrinting,            \* ConfigureParams.Printer.bEnablePrinting
    fileData,                   \* bytes the print file holds beyond its content at the start
    openHandles,                \* FILE streams currently open on the print file
    nOpens,                     \* fopen calls made so far
    nWrites,                    \* fwrite calls made so far
    nFileCloses,                \* fclose calls made so far
    ret,                        \* value returned by the last Printer_TransferByteTo
    lastCall,                   \* the last operation called other than Printer_CheckIdleStatus
    sent,                       \* bytes submitted since the start, CONNECT before one that connected
    baseCol,                    \* column count at the start of the observation
    baseData,                   \* bytes in PrinterBuffer at the start of the observation
    clean,                      \* printing enabled at every call, no open failed, no short write
    nTicks,                     \* Printer_CheckIdleStatus calls (saturating)
    ticksRun,                   \* consecutive Printer_CheckIdleStatus calls since lastCall
    ticksSinceConnect,          \* Printer_CheckIdleStatus calls on the connection, 0 without one
    closesRun,                  \* consecutive Printer_CloseAllConnections calls just made
    nCloses,
    nConfigures

sinkVars == <<PrinterBuffer, nPrinterBufferChars, nPrinterBufferCharsOnLine,
              bConnectedPrinter, bPrinterFile, nIdleCount, PrinterFileHandle>>

envVars == <<bEnablePrinting, fileData, openHandles, nOpens, nWrites, nFileCloses>>

obsVars == <<ret, lastCall, sent, baseCol, baseData, clean, nTicks, ticksRun,
             ticksSinceConnect, closesRun, nCloses, nConfigures>>

vars == <<sinkVars, envVars, obsVars>>

(***************************************************************************)
(* C arithmetic on int.                                                    *)
(***************************************************************************)
\* x++ on an int: the add instruction wraps from INT_MAX to INT_MIN
IncInt(x) == IF x = INT_MAX THEN INT_MIN ELSE x + 1

\* a % b of C99 for b > 0: the quotient truncates toward zero, so the
\* remainder has the sign of a (-a is computed as -(a+1) + 1)
CRem(a, b) == IF a >= 0 THEN a % b ELSE -((((-(a + 1)) % b) + 1) % b)

Min(a, b) == IF a < b THEN a ELSE b


(***************************************************************************)
(* The static variables and the print file, as a record.                   *)
(***************************************************************************)
Cur ==
    [PrinterBuffer |-> PrinterBuffer,
     nPrinterBufferChars |-> nPrinterBufferChars,
     nPrinterBufferCharsOnLine |-> nPrinterBufferCharsOnLine,
     bConnectedPrinter |-> bConnectedPrinter,
     bPrinterFile |-> bPrinterFile,
     nIdleCount |-> nIdleCount,
     PrinterFileHandle |-> PrinterFileHandle,
     fileData |-> fileData,
     openHandles |-> openHandles,
     nOpens |-> nOpens,
     nWrites |-> nWrites,
     nFileCloses |-> nFileCloses,
     clean |-> clean]

Store(t) ==
    /\ PrinterBuffer' = t.PrinterBuffer
    /\ nPrinterBufferChars' = t.nPrinterBufferChars
    /\ nPrinterBufferCharsOnLine' = t.nPrinterBufferCharsOnLine
    /\ bConnectedPrinter' = t.bConnectedPrinter
    /\ bPrinterFile' = t.bPrinterFile
    /\ nIdleCount' = t.nIdleCount
    /\ PrinterFileHandle' = t.PrinterFileHandle
    /\ fileData' = t.fileData
    /\ openHandles' = t.openHandles
    /\ nOpens' = t.nOpens
    /\ nWrites' = t.nWrites
    /\ nFileCloses' = t.nFileCloses
    /\ clean' = t.clean

(***************************************************************************)
(* The file system.  fopen(name, "a+") creates the file if it is absent    *)
(* and keeps its content; ok is whether this call succeeds.  fwrite on the *)
(* stream appends; limit is the number of bytes this call can take, so a   *)
(* limit below the request is a short write.                               *)
(***************************************************************************)
\* mutant: the file is opened in mode "w+", which truncates it
fopen_Truncate(s, ok) ==
    IF ok
    THEN [s EXCEPT !.PrinterFileHandle = "open", !.openHandles = @ + 1,
                   !.nOpens = @ + 1, !.fileData = <<>>]
    ELSE [s EXCEPT !.PrinterFileHandle = "NULL", !.nOpens = @ + 1,
                   !.clean = FALSE]

fopen(s, ok) ==
    IF ok
    THEN [s EXCEPT !.PrinterFileHandle = "open", !.openHandles = @ + 1,
                   !.nOpens = @ + 1]
    ELSE [s EXCEPT !.PrinterFileHandle = "NULL", !.nOpens = @ + 1,
                   !.clean = FALSE]

fclose(s) ==
    [s EXCEPT !.PrinterFileHandle = "closed", !.openHandles = @ - 1,
              !.nFileCloses = @ + 1]

fwrite(s, limit) ==
    LET n == Min(s.nPrinterBufferChars, limit)
    IN [s EXCEPT !.fileData = @ \o SubSeq(s.PrinterBuffer, 1, n),
                 !.nWrites = @ + 1,
                 !.clean = @ /\ (n = s.nPrinterBufferChars)]

(***************************************************************************)
(* printer.c                                                               *)
(***************************************************************************)
\* mutant: bPrinterFile stays set when fopen failed
OpenFile_FlagKept(s, ok) ==
    fopen([s EXCEPT !.bPrinterFile = TRUE], ok)

Printer_OpenFile(s, ok) ==
    LET s1 == [s EXCEPT !.bPrinterFile = TRUE]
        s2 == fopen(s1, ok)
    IN IF s2.PrinterFileHandle = "NULL"
       THEN [s2 EXCEPT !.bPrinterFile = FALSE]
       ELSE s2

\* mutant: the file is closed but bPrinterFile is left set
CloseFile_FlagKept(s) ==
    IF s.bPrinterFile THEN fclose(s) ELSE s

\* mutant: the file is closed without asking whether one is open
CloseFile_Unguarded(s) ==
    [fclose(s) EXCEPT !.bPrinterFile = FALSE]

Printer_CloseFile(s) ==
    IF s.bPrinterFile
    THEN [fclose(s) EXCEPT !.bPrinterFile = FALSE]
    ELSE s

Printer_ResetInternalBuffer(s) ==
    [s EXCEPT !.nPrinterBufferChars = 0, !.PrinterBuffer = <<>>]

Printer_ResetCharsOnLine(s) ==
    [s EXCEPT !.nPrinterBufferCharsOnLine = 0]

\* mutant: the bytes a short write did not take stay in the buffer
EmptyFile_KeepUnwritten(s, limit) ==
    IF s.bPrinterFile
    THEN LET n == Min(s.nPrinterBufferChars, limit)
         IN [fwrite(s, limit) EXCEPT
                !.PrinterBuffer = SubSeq(@, n + 1, Len(@)),
                !.nPrinterBufferChars = @ - n]
    ELSE s

Printer_EmptyFile(s, limit) ==
    IF s.bPrinterFile
    THEN Printer_ResetInternalBuffer(fwrite(s, limit))
    ELSE s

\* the state after the call and the value returned
Printer_EmptyInternalBuffer(s, limit) ==
    IF s.nPrinterBufferChars > 0
    THEN [st |-> IF s.bPrinterFile THEN Printer_EmptyFile(s, limit) ELSE s,
          rv |-> TRUE]
    ELSE [st |-> s, rv |-> FALSE]

\* mutant: DEL (127) passes as a normal character
ValidByte_DelPasses(Byte) ==
    IF (Byte = 13) \/ (Byte = 10) THEN TRUE
    ELSE IF (Byte >= 32) /\ (Byte <= 127) THEN TRUE
    ELSE IF Byte = TAB THEN TRUE
    ELSE FALSE

Printer_ValidByte(Byte) ==
    IF (Byte = 13) \/ (Byte = 10) THEN TRUE
    ELSE IF (Byte >= 32) /\ (Byte < 127) THEN TRUE
    ELSE IF Byte = TAB THEN TRUE
    ELSE FALSE

\* PrinterBuffer[nPrinterBufferChars++] = Byte
StoreByte(s, Byte) ==
    [s EXCEPT !.PrinterBuffer = Append(@, Byte),
              !.nPrinterBufferChars = @ + 1]

\* mutant: the buffer is emptied one byte before it is full
AddByte_FlushEarly(s, Byte, limit) ==
    LET s1 == IF s.nPrinterBufferChars >= PRINTER_BUFFER_SIZE - 1
              THEN Printer_EmptyInternalBuffer(s, limit).st
              ELSE s
        s2 == StoreByte(s1, Byte)
    IN IF ~((Byte = 13) \/ (Byte = 10))
       THEN [s2 EXCEPT !.nPrinterBufferCharsOnLine = IncInt(@)]
       ELSE s2

\* mutant: the byte is stored first and the buffer emptied once it is full
AddByte_StoreThenFlush(s, Byte, limit) ==
    LET s1 == StoreByte(s, Byte)
        s2 == IF ~((Byte = 13) \/ (Byte = 10))
              THEN [s1 EXCEPT !.nPrinterBufferCharsOnLine = IncInt(@)]
              ELSE s1
    IN IF s2.nPrinterBufferChars = PRINTER_BUFFER_SIZE
       THEN Printer_EmptyInternalBuffer(s2, limit).st
       ELSE s2

Printer_AddByteToInternalBuffer(s, Byte, limit) ==
    LET s1 == IF s.nPrinterBufferChars = PRINTER_BUFFER_SIZE
              THEN Printer_EmptyInternalBuffer(s, limit).st
              ELSE s
        s2 == StoreByte(s1, Byte)
    IN IF ~((Byte = 13) \/ (Byte = 10))
       THEN [s2 EXCEPT !.nPrinterBufferCharsOnLine = IncInt(@)]
       ELSE s2

\* the body of the for loop, run k times
RECURSIVE AddSpaces(_, _)
AddSpaces(s, k) ==
    IF k <= 0 THEN s
    ELSE AddSpaces([StoreByte(s, SPACE) EXCEPT
                       !.nPrinterBufferCharsOnLine = IncInt(@)], k - 1)

NumSpaces(s) ==
    PRINTER_TAB_SETTING - CRem(s.nPrinterBufferCharsOnLine, PRINTER_TAB_SETTING)

\* mutant: the buffer is emptied only when fewer than PRINTER_TAB_SETTING
\* bytes are free
TabFlushNeeded_Above(s) ==
    s.nPrinterBufferChars > (PRINTER_BUFFER_SIZE - PRINTER_TAB_SETTING)

TabFlushNeeded(s) ==
    s.nPrinterBufferChars >= (PRINTER_BUFFER_SIZE - PRINTER_TAB_SETTING)

Printer_AddTabToInternalBuffer(s, limit) ==
    LET s1 == IF TabFlushNeeded(s)
              THEN Printer_EmptyInternalBuffer(s, limit).st
              ELSE s
    IN AddSpaces(s1, NumSpaces(s1))

\* mutant: the file is closed without the buffer being emptied first
CloseAllConnections_NoFlush(s, limit) ==
    [Printer_CloseFile(s) EXCEPT !.bConnectedPrinter = FALSE]

Printer_CloseAllConnections(s, limit) ==
    LET s1 == Printer_EmptyInternalBuffer(s, limit).st
        s2 == Printer_CloseFile(s1)
    IN [s2 EXCEPT !.bConnectedPrinter = FALSE]

\* lines 266-273: connect if there is no connection yet
Connect(s, ok) ==
    IF ~s.bConnectedPrinter
    THEN LET s1 == Printer_OpenFile(s, ok)
             s2 == [s1 EXCEPT !.bConnectedPrinter = s1.bPrinterFile]
         IN Printer_ResetCharsOnLine(Printer_ResetInternalBuffer(s2))
    ELSE s

\* lines 279-287: buffer the byte if it is a useable character
BufferByte(s, Byte, limit) ==
    IF Printer_ValidByte(Byte)
    THEN LET s1 == IF Byte = TAB
                   THEN Printer_AddTabToInternalBuffer(s, limit)
                   ELSE Printer_AddByteToInternalBuffer(s, Byte, limit)
         IN IF Byte = 13
            THEN [s1 EXCEPT !.nPrinterBufferCharsOnLine = 0]
            ELSE s1
    ELSE s

\* mutant: bEnablePrinting is not asked
TransferByteTo_AlwaysEnabled(s, enabled, Byte, ok, limit) ==
    LET s1 == Connect(s, ok)
    IN IF s1.bConnectedPrinter
       THEN [st |-> BufferByte(s1, Byte, limit), rv |-> TRUE]
       ELSE [st |-> s1, rv |-> FALSE]

\* mutant: the byte is classified before a connection is made, and a byte
\* that is not useable does not open the file
TransferByteTo_ValidateFirst(s, enabled, Byte, ok, limit) ==
    IF ~enabled
    THEN [st |-> [s EXCEPT !.clean = FALSE], rv |-> FALSE]
    ELSE IF ~s.bConnectedPrinter /\ ~Printer_ValidByte(Byte)
    THEN [st |-> s, rv |-> FALSE]
    ELSE LET s1 == Connect(s, ok)
         IN IF s1.bConnectedPrinter
            THEN [st |-> BufferByte(s1, Byte, limit), rv |-> TRUE]
            ELSE [st |-> s1, rv |-> FALSE]

\* the state after the call and the value returned
Printer_TransferByteTo(s, enabled, Byte, ok, limit) ==
    IF ~enabled
    THEN [st |-> [s EXCEPT !.clean = FALSE], rv |-> FALSE]
    ELSE LET s1 == Connect(s, ok)
         IN IF s1.bConnectedPrinter
            THEN [st |-> BufferByte(s1, Byte, limit), rv |-> TRUE]
            ELSE [st |-> s1, rv |-> FALSE]

\* mutant: the idle count must pass PRINTER_IDLE_CLOSE, not reach it
CheckIdleStatus_CloseLate(s, limit) ==
    LET e == Printer_EmptyInternalBuffer(s, limit)
    IN IF e.rv
       THEN [e.st EXCEPT !.nIdleCount = 0]
       ELSE LET s1 == [e.st EXCEPT !.nIdleCount = IncInt(@)]
            IN IF s1.nIdleCount > PRINTER_IDLE_CLOSE
               THEN [Printer_CloseAllConnections(s1, limit) EXCEPT !.nIdleCount = 0]
               ELSE s1

\* mutant: the idle count starts again at PRINTER_IDLE_CLOSE without the
\* connection being closed
CheckIdleStatus_NeverClose(s, limit) ==
    LET e == Printer_EmptyInternalBuffer(s, limit)
    IN IF e.rv
       THEN [e.st EXCEPT !.nIdleCount = 0]
       ELSE LET s1 == [e.st EXCEPT !.nIdleCount = IncInt(@)]
            IN IF s1.nIdleCount >= PRINTER_IDLE_CLOSE
               THEN [s1 EXCEPT !.nIdleCount = 0]
               ELSE s1

\* mutant: the idle count starts again only when a connection was closed
CheckIdleStatus_WrapOnlyConnected(s, limit) ==
    LET e == Printer_EmptyInternalBuffer(s, limit)
    IN IF e.rv
       THEN [e.st EXCEPT !.nIdleCount = 0]
       ELSE LET s1 == [e.st EXCEPT !.nIdleCount = IncInt(@)]
            IN IF s1.nIdleCount >= PRINTER_IDLE_CLOSE /\ s1.bConnectedPrinter
               THEN [Printer_CloseAllConnections(s1, limit) EXCEPT !.nIdleCount = 0]
               ELSE s1

Printer_CheckIdleStatus(s, limit) ==
    LET e == Printer_EmptyInternalBuffer(s, limit)
    IN IF e.rv
       THEN [e.st EXCEPT !.nIdleCount = 0]
       ELSE LET s1 == [e.st EXCEPT !.nIdleCount = IncInt(@)]
            IN IF s1.nIdleCount >= PRINTER_IDLE_CLOSE
               THEN [Printer_CloseAllConnections(s1, limit) EXCEPT !.nIdleCount = 0]
               ELSE s1


(***************************************************************************)
(* Observation of a run.                                                   *)
(***************************************************************************)
\* marks, in sent, the byte whose call established a connection: the first
\* value that is no unsigned char
CONNECT == 255 + 1

\* the calls of Printer_TransferByteTo made so far
NumCalls == Cardinality({i \in DOMAIN sent : sent[i] # CONNECT})

\* no store past the end of PrinterBuffer has happened: what the program
\* does after one is undefined, and the model follows it no further
InBounds == nPrinterBufferChars <= PRINTER_BUFFER_SIZE

(***************************************************************************)
(* Operations.                                                             *)
(***************************************************************************)
TransferByteTo(Byte, ok, limit) ==
    LET r == Printer_TransferByteTo(Cur, bEnablePrinting, Byte, ok, limit)
        established == ~bConnectedPrinter /\ r.st.bConnectedPrinter
    IN /\ InBounds
       /\ Store(r.st)
       /\ ret' = r.rv
       /\ lastCall' = "TransferByteTo"
       /\ sent' = sent \o (IF established THEN <<CONNECT>> ELSE <<>>) \o <<Byte>>
       /\ ticksRun' = 0
       /\ ticksSinceConnect' = IF established THEN 0 ELSE ticksSinceConnect
       /\ closesRun' = 0
       /\ UNCHANGED <<bEnablePrinting, baseCol, baseData, nTicks, nCloses, nConfigures>>

CheckIdleStatus(limit) ==
    /\ InBounds
    /\ Store(Printer_CheckIdleStatus(Cur, limit))
    /\ nTicks' = Min(nTicks + 1, MaxTicks)
    /\ ticksRun' = Min(ticksRun + 1, PRINTER_IDLE_CLOSE + 1)
    /\ ticksSinceConnect' = IF bConnectedPrinter
                            THEN Min(ticksSinceConnect + 1, PRINTER_IDLE_CLOSE)
                            ELSE 0
    /\ closesRun' = 0
    /\ UNCHANGED <<bEnablePrinting, ret, lastCall, sent, baseCol, baseData, nCloses, nConfigures>>

\* Printer_UnInit, or any other caller closing the printer
CloseAllConnections(limit) ==
    /\ InBounds
    /\ Store(Printer_CloseAllConnections(Cur, limit))
    /\ lastCall' = "CloseAllConnections"
    /\ ticksRun' = 0
    /\ nCloses' = nCloses + 1
    /\ ticksSinceConnect' = 0
    /\ closesRun' = closesRun + 1
    /\ UNCHANGED <<bEnablePrinting, ret, sent, baseCol, baseData, nTicks, nConfigures>>

\* the user changes ConfigureParams.Printer.bEnablePrinting
Configure(enabled) ==
    /\ InBounds
    /\ enabled # bEnablePrinting
    /\ bEnablePrinting' = enabled
    /\ lastCall' = "Configure"
    /\ ticksRun' = 0
    /\ nConfigures' = nConfigures + 1
    /\ closesRun' = 0
    /\ UNCHANGED <<sinkVars, fileData, openHandles, nOpens, nWrites, nFileCloses, clean,
                   ret, sent, baseCol, baseData, nTicks, ticksSinceConnect, nCloses>>

(***************************************************************************)
(* The emulator after start-up: statics zero-initialised, nothing open.    *)
(***************************************************************************)
InitSink ==
    /\ PrinterBuffer = <<>>
    /\ nPrinterBufferChars = 0
    /\ nPrinterBufferCharsOnLine = 0
    /\ bConnectedPrinter = FALSE
    /\ bPrinterFile = FALSE
    /\ nIdleCount = 0
    /\ PrinterFileHandle = "NULL"

InitObs ==
    /\ fileData = <<>>
    /\ openHandles = 0
    /\ nOpens = 0
    /\ nWrites = 0
    /\ nFileCloses = 0
    /\ ret = FALSE
    /\ lastCall = "Init"
    /\ sent = <<>>
    /\ baseCol = 0
    /\ baseData = <<>>
    /\ clean = TRUE
    /\ nTicks = 0
    /\ ticksRun = 0
    /\ ticksSinceConnect = 0
    /\ closesRun = 0
    /\ nCloses = 0
    /\ nConfigures = 0

Init ==
    /\ InitSink
    /\ InitObs
    /\ bEnablePrinting \in BOOLEAN

\* one byte of each class: line ends, a printable character, tab, a dropped byte
Alphabet == {CR, LF, 65, TAB, 0}

\* what an fwrite can take: everything, or only 0..MaxShortWrite bytes
WriteLimits == {PRINTER_BUFFER_SIZE} \cup (0..MaxShortWrite)

Next ==
    \/ \E Byte \in Alphabet, ok \in BOOLEAN, limit \in WriteLimits :
          NumCalls < MaxBytes /\ TransferByteTo(Byte, ok, limit)
    \/ \E limit \in WriteLimits :
          nTicks < MaxTicks /\ CheckIdleStatus(limit)
    \/ \E limit \in WriteLimits :
          nCloses < MaxCloses /\ CloseAllConnections(limit)
    \/ \E enabled \in BOOLEAN :
          nConfigures < MaxConfigures /\ Configure(enabled)

Spec == Init /\ [][Next]_vars


(***************************************************************************)
(* Idle supervision: the timer calls Printer_CheckIdleStatus any number of *)
(* times, before, between and after a few transferred bytes.               *)
(***************************************************************************)
InitIdle ==
    /\ InitSink
    /\ InitObs
    /\ bEnablePrinting = TRUE

\* a byte that is buffered and a byte that is dropped
IdleAlphabet == {65, 0}

NextIdle ==
    \/ \E Byte \in IdleAlphabet, ok \in BOOLEAN :
          NumCalls < MaxIdleBytes /\ TransferByteTo(Byte, ok, PRINTER_BUFFER_SIZE)
    \/ CheckIdleStatus(PRINTER_BUFFER_SIZE)
    \/ nCloses < MaxCloses /\ CloseAllConnections(PRINTER_BUFFER_SIZE)

SpecIdle == InitIdle /\ [][NextIdle]_vars


(***************************************************************************)
(* Every byte value: the first byte of a run is one of Alphabet, the      *)
(* bytes after it are any unsigned char; around them, changes of the       *)
(* configuration flag and a few idle checks.                               *)
(***************************************************************************)
WideAlphabet == IF NumCalls = 0 THEN Alphabet ELSE ByteValues

NextBytes ==
    \/ \E Byte \in WideAlphabet, ok \in BOOLEAN :
          NumCalls < MaxWideBytes /\ TransferByteTo(Byte, ok, PRINTER_BUFFER_SIZE)
    \/ nTicks < MaxTicks /\ CheckIdleStatus(PRINTER_BUFFER_SIZE)
    \/ \E enabled \in BOOLEAN :
          nConfigures < MaxConfigures /\ Configure(enabled)

SpecBytes == Init /\ [][NextBytes]_vars


(***************************************************************************)
(* Filling the buffer: a fresh run transfers the character 'A' until the   *)
(* buffer is nearly full; from there on other bytes and idle checks may    *)
(* come as well.                                                           *)
(***************************************************************************)
\* the filling character, 'A'
FillChars == {65}

FillAlphabet == {66, TAB, CR, LF, 0}

NumSpecials == Cardinality({i \in DOMAIN sent : sent[i] \notin FillChars \cup {CONNECT}})

\* an fwrite takes everything or nothing
FillLimits == {PRINTER_BUFFER_SIZE, 0}

NearFull == nPrinterBufferChars >= PRINTER_BUFFER_SIZE - FillWindow

NextFill ==
    \/ \E Byte \in FillChars, limit \in FillLimits :
          /\ NumCalls < PRINTER_BUFFER_SIZE + MaxOverfill
          /\ TransferByteTo(Byte, TRUE, limit)
    \/ \E Byte \in FillAlphabet, limit \in FillLimits :
          /\ NumCalls < PRINTER_BUFFER_SIZE + MaxOverfill
          /\ NearFull
          /\ NumSpecials < MaxSpecials
          /\ TransferByteTo(Byte, TRUE, limit)
    \/ /\ NearFull
       /\ nTicks < MaxFillTicks
       /\ CheckIdleStatus(PRINTER_BUFFER_SIZE)

SpecFill == InitIdle /\ [][NextFill]_vars

(***************************************************************************)
(* A very long line.  The printer is connected and has buffered            *)
(* INT_MAX - k characters 'A' and no carriage return since the connection  *)
(* was made; an idle check wrote all but the last n of them.  The program  *)
(* reaches this state from Init by one successful Printer_TransferByteTo   *)
(* of 'A', INT_MAX - k - n - 1 more, one Printer_CheckIdleStatus and n     *)
(* more transfers of 'A'.  The observation starts there: sent, fileData    *)
(* and the counters of calls start empty, baseData holds the n buffered    *)
(* bytes and baseCol the column count.                                     *)
(***************************************************************************)
LongLineFills ==
    { PRINTER_BUFFER_SIZE - PRINTER_TAB_SETTING - d : d \in 1..LongLineWindow }

InitLongLine ==
    \E n \in LongLineFills, k \in 0..LongLineSlack :
        /\ PrinterBuffer = [i \in 1..n |-> 65]
        /\ nPrinterBufferChars = n
        /\ nPrinterBufferCharsOnLine = INT_MAX - k
        /\ bConnectedPrinter = TRUE
        /\ bPrinterFile = TRUE
        /\ nIdleCount = 0
        /\ PrinterFileHandle = "open"
        /\ bEnablePrinting = TRUE
        /\ fileData = <<>>
        /\ openHandles = 1
        /\ nOpens = 0
        /\ nWrites = 0
        /\ nFileCloses = 0
        /\ ret = TRUE
        /\ lastCall = "TransferByteTo"
        /\ sent = <<>>
        /\ baseCol = INT_MAX - k
        /\ baseData = [i \in 1..n |-> 65]
        /\ clean = TRUE
        /\ nTicks = 0
        /\ ticksRun = 0
        /\ ticksSinceConnect = 1
        /\ closesRun = 0
        /\ nCloses = 0
        /\ nConfigures = 0

LongAlphabet == {65, TAB, LF}

NextLongLine ==
    \/ \E Byte \in LongAlphabet :
          /\ NumCalls < MaxLongBytes
          /\ TransferByteTo(Byte, TRUE, PRINTER_BUFFER_SIZE)
    \/ nTicks < MaxFillTicks /\ CheckIdleStatus(PRINTER_BUFFER_SIZE)

SpecLongLine == InitLongLine /\ [][NextLongLine]_vars

(***************************************************************************)
(* The idle timer at work: printing is enabled, every fopen succeeds and   *)
(* every fwrite is complete.  The emulator calls Printer_CheckIdleStatus   *)
(* once per frame for as long as it runs, hence the weak fairness; the     *)
(* program transfers a few bytes at times of its choosing.                 *)
(***************************************************************************)
LiveAlphabet == {65, TAB}

NextLive ==
    \/ \E Byte \in LiveAlphabet :
          NumCalls < MaxLiveBytes /\ TransferByteTo(Byte, TRUE, PRINTER_BUFFER_SIZE)
    \/ CheckIdleStatus(PRINTER_BUFFER_SIZE)

SpecLive ==
    /\ InitIdle
    /\ [][NextLive]_vars
    /\ WF_vars(CheckIdleStatus(PRINTER_BUFFER_SIZE))

(***************************************************************************)
(* Properties.                                                             *)
(***************************************************************************)
\* the step is a call of Printer_TransferByteTo, of Printer_CheckIdleStatus,
\* of Printer_CloseAllConnections
IsTransfer == Len(sent') > Len(sent)

IsTick == sent' = sent /\ nCloses' = nCloses /\ nConfigures' = nConfigures

IsClose == nCloses' = nCloses + 1

\* the byte passed to the call of an IsTransfer step
ByteOfStep == sent'[Len(sent')]

\* the connections established so far
NumConnects == Cardinality({i \in DOMAIN sent : sent[i] = CONNECT})

\* C2: between operations the print file is open exactly when
\* bConnectedPrinter is set, so at most one stream is open at a time, and
\* every successful open so far is matched by one fclose or is the stream
\* still open.
C2_OpenIffConnected ==
    /\ (PrinterFileHandle = "open") = bConnectedPrinter
    /\ bPrinterFile = bConnectedPrinter
    /\ openHandles = (IF bConnectedPrinter THEN 1 ELSE 0)
    /\ NumConnects = nFileCloses + openHandles

\* C2 witness: a second connection is open after the first was closed
C2_Witness ==
    /\ bConnectedPrinter
    /\ NumConnects = 2
    /\ nFileCloses = 1

\* C4 as stated: the last transfer left the printer connected and
\* PRINTER_IDLE_CLOSE idle checks followed it; then the printer is
\* disconnected, the file closed and nIdleCount is 0.
C4_ClosedAfterThreshold ==
    (lastCall = "TransferByteTo" /\ ret /\ ticksRun = PRINTER_IDLE_CLOSE)
        => (~bConnectedPrinter /\ PrinterFileHandle # "open" /\ nIdleCount = 0)

\* C4 amended: after PRINTER_IDLE_CLOSE + 1 idle checks in a row following a
\* transfer that left the printer connected, the printer is disconnected and
\* the file closed; and the idle check that closes a connection leaves
\* nIdleCount at 0.
C4_ClosedAfterThresholdPlusOne ==
    [][IsTick =>
          /\ (lastCall = "TransferByteTo" /\ ret /\ ticksRun' = PRINTER_IDLE_CLOSE + 1)
                => (~bConnectedPrinter' /\ PrinterFileHandle' # "open")
          /\ (bConnectedPrinter /\ ~bConnectedPrinter')
                => (nIdleCount' = 0 /\ PrinterFileHandle' # "open")]_vars

\* C4 witness: a byte was buffered, the first idle check wrote it, and the
\* PRINTER_IDLE_CLOSE idle checks after that closed the connection
C4_Witness ==
    /\ lastCall = "TransferByteTo" /\ ret
    /\ ticksRun = PRINTER_IDLE_CLOSE + 1
    /\ nWrites = 1
    /\ nFileCloses = 1
    /\ ~bConnectedPrinter
    /\ nIdleCount = 0

\* C5: an idle check that is one of the first PRINTER_IDLE_CLOSE - 1 made on
\* a connection leaves the connection open.
C5_NoPrematureClose ==
    [][(IsTick /\ bConnectedPrinter /\ ticksSinceConnect' < PRINTER_IDLE_CLOSE)
          => bConnectedPrinter']_vars

\* C8: with printing disabled, Printer_TransferByteTo returns FALSE and
\* changes nothing: no fopen, no fwrite, no fclose, and the buffer, the
\* counters, the connection and the file are as before.
C8_DisabledChangesNothing ==
    [][(IsTransfer /\ ~bEnablePrinting)
          => (~ret' /\ UNCHANGED <<sinkVars, envVars>>)]_vars

\* C8 witness: a transfer was refused on a connected printer because
\* printing is disabled
C8_Witness ==
    /\ lastCall = "TransferByteTo"
    /\ ~bEnablePrinting
    /\ ~ret
    /\ bConnectedPrinter
    /\ nPrinterBufferChars > 0

\* C9: Printer_CloseAllConnections leaves the printer disconnected, the
\* file closed and the buffer empty and does not touch nIdleCount or the
\* column count; called right after itself, or on a disconnected printer,
\* it changes nothing and makes no fwrite and no fclose.
C9_CloseIdempotent ==
    [][IsClose =>
          /\ ~bConnectedPrinter' /\ ~bPrinterFile' /\ PrinterFileHandle' # "open"
          /\ nPrinterBufferChars' = 0
          /\ nIdleCount' = nIdleCount
          /\ nPrinterBufferCharsOnLine' = nPrinterBufferCharsOnLine
          /\ (closesRun >= 1 \/ ~bConnectedPrinter)
                => UNCHANGED <<sinkVars, envVars>>]_vars

\* C9 witness: a close that wrote the buffer and closed the file was
\* followed at once by a second close
C9_Witness ==
    /\ closesRun = 2
    /\ nWrites = 1
    /\ nFileCloses = 1
    /\ Len(fileData) > 0

\* the bytes that are neither CR, LF, 0x20-0x7E nor tab
InvalidBytes == (0..8) \cup {11, 12} \cup (14..31) \cup (127..255)

\* C10: for a byte that is neither CR, LF, 0x20-0x7E nor tab,
\* Printer_TransferByteTo on a connected printer with printing enabled
\* returns TRUE and changes nothing: no flush, and the buffer, the counters,
\* the connection and the file are as before.
C10_InvalidByteDropped ==
    [][(IsTransfer /\ bEnablePrinting /\ bConnectedPrinter
            /\ ByteOfStep \in InvalidBytes)
          => (ret' /\ UNCHANGED <<sinkVars, envVars>>)]_vars

\* C10 witness: DEL (127) was transferred to a connected printer holding a
\* buffered byte
C10_Witness ==
    /\ lastCall = "TransferByteTo" /\ ret
    /\ ticksRun = 0
    /\ Len(sent) = 3
    /\ sent[1] = CONNECT
    /\ sent[3] = 127
    /\ nPrinterBufferChars = 1


\* C1: the count of buffered characters never exceeds PRINTER_BUFFER_SIZE,
\* so no byte or tab expansion is stored past the end of PrinterBuffer.
C1_WithinCapacity ==
    /\ 0 <= nPrinterBufferChars
    /\ nPrinterBufferChars <= PRINTER_BUFFER_SIZE
    /\ Len(PrinterBuffer) <= PRINTER_BUFFER_SIZE

Spaces(k) == [i \in 1..k |-> SPACE]

\* The output the transferred bytes stand for: CR, LF and 0x20-0x7E as they
\* are, a tab as the spaces up to the next multiple of PRINTER_TAB_SETTING,
\* nothing for any other byte.  col is the column count modulo
\* PRINTER_TAB_SETTING: 0 after a carriage return and on a new connection.
RECURSIVE Expand(_, _)
Expand(bytes, col) ==
    IF bytes = <<>> THEN <<>>
    ELSE LET b == Head(bytes)
             rest == Tail(bytes)
         IN IF b = CONNECT THEN Expand(rest, 0)
            ELSE IF b = TAB
                 THEN Spaces(PRINTER_TAB_SETTING - col) \o Expand(rest, 0)
            ELSE IF b = CR THEN <<b>> \o Expand(rest, 0)
            ELSE IF b = LF THEN <<b>> \o Expand(rest, col)
            ELSE IF b \in 32..126
                 THEN <<b>> \o Expand(rest, (col + 1) % PRINTER_TAB_SETTING)
            ELSE Expand(rest, col)

\* C3: as long as printing was enabled at every call, every open succeeded
\* and every write was complete, the bytes written to the file followed by
\* the bytes in the buffer are the transferred bytes in order, each tab
\* replaced by its run of spaces and every byte that is not CR, LF,
\* 0x20-0x7E or tab left out.
C3_RoundTrip ==
    clean => (fileData \o PrinterBuffer
                 = baseData \o Expand(sent, baseCol % PRINTER_TAB_SETTING))

\* C6: a tab transferred to a connected printer appends exactly
\* 8 - (column count mod 8) spaces, between 1 and 8 of them, and raises the
\* column count by that number, to a multiple of 8.
C6_TabExpansion ==
    [][(IsTransfer /\ bEnablePrinting /\ bConnectedPrinter /\ ByteOfStep = TAB)
          => LET k == PRINTER_TAB_SETTING
                        - (nPrinterBufferCharsOnLine % PRINTER_TAB_SETTING)
                 kept == IF nWrites' = nWrites THEN PrinterBuffer ELSE <<>>
             IN /\ k \in 1..8
                /\ PrinterBuffer' = kept \o Spaces(k)
                /\ nPrinterBufferChars' = Len(kept) + k
                /\ nPrinterBufferCharsOnLine' > nPrinterBufferCharsOnLine
                /\ nPrinterBufferCharsOnLine' - nPrinterBufferCharsOnLine = k
                /\ nPrinterBufferCharsOnLine' % PRINTER_TAB_SETTING = 0]_vars

\* the run so far is one connection made by the first transfer, printable
\* bytes only, no idle check, no close, every write complete
FreshPrintableRun ==
    /\ clean
    /\ nTicks = 0
    /\ nCloses = 0
    /\ Len(sent) >= 2
    /\ sent[1] = CONNECT
    /\ \A i \in 2..Len(sent) : sent[i] \in 32..126

\* C7: on a fresh connection fed printable bytes only, nothing is written
\* while up to PRINTER_BUFFER_SIZE bytes are transferred; the transfer of
\* byte PRINTER_BUFFER_SIZE + 1 makes the one write, of the first
\* PRINTER_BUFFER_SIZE bytes in order, and leaves only that last byte
\* in the buffer.
C7_OneFlushWhenFull ==
    FreshPrintableRun =>
        /\ NumCalls <= PRINTER_BUFFER_SIZE
              => /\ nWrites = 0
                 /\ fileData = <<>>
                 /\ nPrinterBufferChars = NumCalls
                 /\ PrinterBuffer = Tail(sent)
        /\ NumCalls = PRINTER_BUFFER_SIZE + 1
              => /\ nWrites = 1
                 /\ fileData = SubSeq(sent, 2, PRINTER_BUFFER_SIZE + 1)
                 /\ PrinterBuffer = <<sent[PRINTER_BUFFER_SIZE + 2]>>
                 /\ nPrinterBufferChars = 1

\* C7 witness: PRINTER_BUFFER_SIZE + 1 printable bytes were transferred,
\* the last two of them 'B' and 'A', and the one write has happened
C7_Witness ==
    /\ FreshPrintableRun
    /\ NumCalls = PRINTER_BUFFER_SIZE + 1
    /\ sent[PRINTER_BUFFER_SIZE + 1] = 66
    /\ nWrites = 1
    /\ nPrinterBufferChars = 1


\* CR, LF and the normal characters 0x20-0x7E
PlainBytes == {CR, LF} \cup (32..126)

\* the bytes the step wrote to the file
Written == SubSeq(fileData', Len(fileData) + 1, Len(fileData'))

\* C11: Printer_TransferByteTo of CR, LF or a normal character on a connected
\* printer with printing enabled returns TRUE and leaves that byte as the last
\* one in the buffer.  With room in the buffer the byte is appended and
\* nothing is written; with the buffer full there is exactly one write, of
\* the old buffer contents (of all of them unless the write is short), and
\* the byte is then alone in the buffer.
C11_PlainByteAppended ==
    [][(IsTransfer /\ bEnablePrinting /\ bConnectedPrinter
            /\ ByteOfStep \in PlainBytes)
          => /\ ret'
             /\ nPrinterBufferChars' = Len(PrinterBuffer')
             /\ nPrinterBufferChars' >= 1
             /\ PrinterBuffer'[nPrinterBufferChars'] = ByteOfStep
             /\ nPrinterBufferChars < PRINTER_BUFFER_SIZE
                   => /\ PrinterBuffer' = Append(PrinterBuffer, ByteOfStep)
                      /\ nPrinterBufferChars' = nPrinterBufferChars + 1
                      /\ nWrites' = nWrites
                      /\ fileData' = fileData
             /\ nPrinterBufferChars = PRINTER_BUFFER_SIZE
                   => /\ nWrites' = nWrites + 1
                      /\ Written = SubSeq(PrinterBuffer, 1, Len(Written))
                      /\ (clean /\ clean') => Written = PrinterBuffer
                      /\ PrinterBuffer' = <<ByteOfStep>>
                      /\ nPrinterBufferChars' = 1
             /\ bConnectedPrinter' /\ nOpens' = nOpens
             /\ nFileCloses' = nFileCloses /\ nIdleCount' = nIdleCount]_vars

\* C11 witness: a line feed transferred to a full buffer caused the one
\* write and is alone in the buffer
C11_Witness ==
    /\ clean
    /\ lastCall = "TransferByteTo" /\ ret
    /\ NumCalls = PRINTER_BUFFER_SIZE + 1
    /\ sent[Len(sent)] = LF
    /\ nWrites = 1
    /\ Len(fileData) = PRINTER_BUFFER_SIZE
    /\ PrinterBuffer = <<LF>>
    /\ nTicks = 0

\* C12: a Printer_TransferByteTo made with printing enabled while there is
\* no connection makes exactly one fopen.  If that fails the call returns
\* FALSE, there is still no connection, no stream is held, and the buffer is
\* empty and nothing is written; if it succeeds the call connects and
\* returns TRUE.  No step makes an fopen while the printer is connected.
C12_OpenFailure ==
    [][/\ bConnectedPrinter => (nOpens' = nOpens /\ openHandles' <= openHandles)
       /\ (IsTransfer /\ bEnablePrinting /\ ~bConnectedPrinter)
             => /\ nOpens' = nOpens + 1
                /\ openHandles' \in {openHandles, openHandles + 1}
                /\ openHandles' = openHandles
                      => /\ ~ret'
                         /\ ~bConnectedPrinter'
                         /\ ~bPrinterFile'
                         /\ PrinterFileHandle' # "open"
                         /\ openHandles' = 0
                         /\ nPrinterBufferChars' = 0
                         /\ PrinterBuffer' = <<>>
                         /\ fileData' = fileData
                         /\ nWrites' = nWrites
                /\ openHandles' = openHandles + 1
                      => /\ ret'
                         /\ bConnectedPrinter'
                         /\ PrinterFileHandle' = "open"]_vars

\* C12 witness: two transfers whose fopen failed, then one whose fopen
\* succeeded and that connected
C12_Witness ==
    /\ NumCalls = 3
    /\ nOpens = 3
    /\ nConfigures = 0
    /\ openHandles = 1
    /\ nFileCloses = 0
    /\ bConnectedPrinter
    /\ ret
    /\ sent[Len(sent) - 1] = CONNECT

\* the step made a write that took fewer bytes than the buffer held
ShortWrite == nWrites' = nWrites + 1 /\ Len(Written) < nPrinterBufferChars

\* C13: a step makes at most one write, of a prefix of the buffer.  When the
\* write is short the buffer is emptied all the same, so that what was not
\* written is gone: after an idle check or a close the buffer is empty,
\* after a transfer it holds only what that call stored.  The short write
\* closes no connection, and transfers to the connected printer go on
\* returning TRUE and storing their byte.
C13_PartialWrite ==
    [][/\ nWrites' \in {nWrites, nWrites + 1}
       /\ nWrites' = nWrites => fileData' = fileData
       /\ Written = SubSeq(PrinterBuffer, 1, Len(Written))
       /\ ShortWrite
             => /\ nPrinterBufferChars' = Len(PrinterBuffer')
                /\ IsTick => /\ PrinterBuffer' = <<>>
                             /\ bConnectedPrinter'
                             /\ PrinterFileHandle' = "open"
                /\ IsClose => PrinterBuffer' = <<>>
                /\ IsTransfer
                      => /\ ret'
                         /\ bConnectedPrinter'
                         /\ PrinterFileHandle' = "open"
                         /\ PrinterBuffer' \in {<<ByteOfStep>>}
                                \cup {Spaces(k) : k \in 1..PRINTER_TAB_SETTING}
       /\ (IsTransfer /\ bEnablePrinting /\ bConnectedPrinter)
             => /\ ret'
                /\ bConnectedPrinter'
                /\ ByteOfStep \in PlainBytes
                      => PrinterBuffer'[Len(PrinterBuffer')] = ByteOfStep]_vars

\* C13 witness: two bytes were buffered, an idle check wrote only the first
\* of them, and the byte transferred after that is alone in the buffer
C13_Witness ==
    /\ sent = <<CONNECT, 65, 65, 65>>
    /\ nTicks = 1
    /\ nCloses = 0
    /\ nWrites = 1
    /\ fileData = <<65>>
    /\ PrinterBuffer = <<65>>
    /\ bConnectedPrinter
    /\ ret

\* C14: the print file only ever grows at its end.  Every step leaves the
\* bytes already in the file in place, a step that makes an fopen (a first
\* connection or a reconnection) adds nothing and removes nothing, and what
\* a step adds is taken from the front of the buffer of the connection then
\* open; so the file holds the output of the connections one after the
\* other, in order, behind what it held at the start.
C14_AppendAcrossConnections ==
    [][/\ Len(fileData') >= Len(fileData)
       /\ SubSeq(fileData', 1, Len(fileData)) = fileData
       /\ nOpens' # nOpens => fileData' = fileData
       /\ fileData' # fileData
             => /\ bConnectedPrinter
                /\ Written = SubSeq(PrinterBuffer, 1, Len(Written))]_vars

\* C14 witness: a first connection wrote 'A' and was closed, a second one
\* wrote a line feed behind it and was closed
C14_Witness ==
    /\ NumConnects = 2
    /\ nFileCloses = 2
    /\ ~bConnectedPrinter
    /\ fileData = <<65, LF>>

\* the step is a Printer_TransferByteTo made with printing enabled while
\* there is no connection
IsFirstTransfer == IsTransfer /\ bEnablePrinting /\ ~bConnectedPrinter

\* C15 as stated: an fopen is made only by a transfer, with printing
\* enabled and no connection yet, of a byte that is CR, LF, 0x20-0x7E or
\* tab; idle checks, closes and transfers of any other byte make none.
C15_LazyOpen ==
    [][nOpens' # nOpens
          => (IsFirstTransfer /\ ByteOfStep \notin InvalidBytes)]_vars

\* C15 amended: an fopen is made by exactly the transfers made with
\* printing enabled while there is no connection, whatever the byte, one
\* fopen each; idle checks, closes, changes of the configuration and
\* transfers made with printing disabled or on a connected printer make none.
C15_OpenOnFirstTransfer ==
    [][/\ (nOpens' # nOpens) = IsFirstTransfer
       /\ nOpens' \in {nOpens, nOpens + 1}
       /\ openHandles' > openHandles => nOpens' = nOpens + 1]_vars

\* C15 witness: the first byte transferred was 0x00; it opened the file and
\* was dropped
C15_Witness ==
    /\ sent = <<CONNECT, 0>>
    /\ nOpens = 1
    /\ openHandles = 1
    /\ bConnectedPrinter
    /\ ret
    /\ nPrinterBufferChars = 0

\* the step is the transfer of a tab to a connected printer
IsTabTransfer ==
    IsTransfer /\ bEnablePrinting /\ bConnectedPrinter /\ ByteOfStep = TAB

\* the bytes the step added to a buffer it did not empty
Added == SubSeq(PrinterBuffer', Len(PrinterBuffer) + 1, Len(PrinterBuffer'))

\* C16 as stated: the transfer of a tab writes the buffer out first exactly
\* when it holds more than PRINTER_BUFFER_SIZE - 8 bytes; with
\* PRINTER_BUFFER_SIZE - 8 bytes or fewer there is no write and the spaces
\* follow the bytes already in the buffer.
C16_TabFlushAbove ==
    [][IsTabTransfer
          => /\ (nWrites' # nWrites)
                   = (nPrinterBufferChars > PRINTER_BUFFER_SIZE - PRINTER_TAB_SETTING)
             /\ nPrinterBufferChars <= PRINTER_BUFFER_SIZE - PRINTER_TAB_SETTING
                   => /\ Len(PrinterBuffer') > Len(PrinterBuffer)
                      /\ PrinterBuffer' = PrinterBuffer \o Spaces(Len(Added))]_vars

\* C16 amended: the transfer of a tab writes the buffer out first exactly
\* when it holds PRINTER_BUFFER_SIZE - 8 bytes or more, and then the buffer
\* holds the spaces only; with fewer there is no write and the spaces
\* follow the bytes already in the buffer.
C16_TabFlushAtOrAbove ==
    [][IsTabTransfer
          => /\ (nWrites' # nWrites)
                   = (nPrinterBufferChars >= PRINTER_BUFFER_SIZE - PRINTER_TAB_SETTING)
             /\ nPrinterBufferChars < PRINTER_BUFFER_SIZE - PRINTER_TAB_SETTING
                   => /\ Len(PrinterBuffer') > Len(PrinterBuffer)
                      /\ PrinterBuffer' = PrinterBuffer \o Spaces(Len(Added))
                      /\ fileData' = fileData
             /\ nPrinterBufferChars >= PRINTER_BUFFER_SIZE - PRINTER_TAB_SETTING
                   => /\ nWrites' = nWrites + 1
                      /\ Len(PrinterBuffer') >= 1
                      /\ PrinterBuffer' = Spaces(Len(PrinterBuffer'))
                      /\ (clean /\ clean') => Written = PrinterBuffer]_vars

\* C16 witness: a tab arrived when the buffer held exactly
\* PRINTER_BUFFER_SIZE - 8 bytes; they were written and the buffer holds
\* the eight spaces
C16_Witness ==
    /\ clean
    /\ NumCalls = PRINTER_BUFFER_SIZE - PRINTER_TAB_SETTING + 1
    /\ sent[Len(sent)] = TAB
    /\ nTicks = 0
    /\ nWrites = 1
    /\ Len(fileData) = PRINTER_BUFFER_SIZE - PRINTER_TAB_SETTING
    /\ PrinterBuffer = Spaces(PRINTER_TAB_SETTING)

\* the printer is disconnected, the file closed, the buffer empty, and the
\* file holds everything the transferred bytes stand for
AllWrittenAndClosed ==
    /\ ~bConnectedPrinter
    /\ ~bPrinterFile
    /\ PrinterFileHandle # "open"
    /\ openHandles = 0
    /\ nPrinterBufferChars = 0
    /\ PrinterBuffer = <<>>
    /\ fileData = Expand(sent, 0)

\* C17: with Printer_CheckIdleStatus called again and again, once the
\* transfers have come to an end the printer is eventually disconnected
\* with the file closed and the buffer empty, every buffered byte is in the
\* file, and it stays so.
C17_EventuallyClosed == <>[]AllWrittenAndClosed

\* C17 witness: two bytes were buffered, written by the first idle check
\* after them, and the connection was closed by a later one
C17_Witness ==
    /\ AllWrittenAndClosed
    /\ NumCalls = MaxLiveBytes
    /\ nWrites >= 1
    /\ nFileCloses >= 1
    /\ Len(fileData) >= 2

\* The column count as C18 describes it: the normal characters and tab
\* spaces since the last CR or LF, or since the connection was made.
RECURSIVE ColumnSinceLineBreak(_, _)
ColumnSinceLineBreak(bytes, col) ==
    IF bytes = <<>> THEN col
    ELSE LET b == Head(bytes)
             rest == Tail(bytes)
         IN IF b = CONNECT \/ b = CR \/ b = LF
            THEN ColumnSinceLineBreak(rest, 0)
            ELSE IF b = TAB
                 THEN ColumnSinceLineBreak(rest,
                          col + PRINTER_TAB_SETTING - (col % PRINTER_TAB_SETTING))
            ELSE IF b \in 32..126 THEN ColumnSinceLineBreak(rest, col + 1)
            ELSE ColumnSinceLineBreak(rest, col)

\* C18: while the printer is connected and every transferred byte was
\* accepted, nPrinterBufferCharsOnLine is the number of normal characters
\* and tab spaces buffered since the last CR or LF of this connection, or
\* since the connection was made; writes of the buffer do not change it.
C18_ColumnTracking ==
    (clean /\ bConnectedPrinter)
        => nPrinterBufferCharsOnLine = ColumnSinceLineBreak(sent, baseCol)

\* C19: between operations a disconnected printer has an empty buffer.  So
\* the reset of the buffer made when a connection is established discards
\* nothing, and a close with bytes in the buffer writes them out before it
\* closes the file.
C19_DisconnectedBufferEmpty ==
    [][/\ ~bConnectedPrinter
             => (nPrinterBufferChars = 0 /\ PrinterBuffer = <<>>)
       /\ ~bConnectedPrinter'
             => (nPrinterBufferChars' = 0 /\ PrinterBuffer' = <<>>)
       /\ IsFirstTransfer => PrinterBuffer = <<>>
       /\ (IsClose /\ nPrinterBufferChars > 0)
             => /\ nWrites' = nWrites + 1
                /\ nFileCloses' = nFileCloses + 1
                /\ Written = SubSeq(PrinterBuffer, 1, Len(Written))
                /\ clean' => Written = PrinterBuffer]_vars

\* C19 witness: a close found a byte in the buffer, wrote it and closed
\* the file
C19_Witness ==
    /\ lastCall = "CloseAllConnections"
    /\ clean
    /\ nTicks = 0
    /\ nWrites = 1
    /\ fileData = <<65>>
    /\ ~bConnectedPrinter
    /\ nPrinterBufferChars = 0
    /\ closesRun = 1

\* C20: between operations 0 <= nIdleCount < PRINTER_IDLE_CLOSE.  Only
\* Printer_CheckIdleStatus changes nIdleCount.  Called on a disconnected
\* printer it counts on, starting again at 0 when PRINTER_IDLE_CLOSE is
\* reached, and makes no fopen, fwrite or fclose and changes nothing else.
C20_IdleCountRange ==
    [][/\ nIdleCount \in 0..(PRINTER_IDLE_CLOSE - 1)
       /\ nIdleCount' \in 0..(PRINTER_IDLE_CLOSE - 1)
       /\ ~IsTick => nIdleCount' = nIdleCount
       /\ (IsTick /\ ~bConnectedPrinter)
             => /\ nIdleCount' = (nIdleCount + 1) % PRINTER_IDLE_CLOSE
                /\ UNCHANGED <<PrinterBuffer, nPrinterBufferChars,
                               nPrinterBufferCharsOnLine, bConnectedPrinter,
                               bPrinterFile, PrinterFileHandle>>
                /\ UNCHANGED envVars]_vars

\* C20 witness: PRINTER_IDLE_CLOSE + 1 idle checks on a printer that was
\* never connected; the count started again and stands at 1
C20_Witness ==
    /\ lastCall = "Init"
    /\ nOpens = 0
    /\ ticksRun = PRINTER_IDLE_CLOSE + 1
    /\ nIdleCount = 1

=============================================================================
